---- MODULE Spec2Model ----
(***************************************************************************)
(* Model of the vendo-app storefront: the payment page (handlePay with the *)
(* useVMStatus monitor), the older payment page without VM checks, and the *)
(* dispensing page (handleCollect).  Every await of the source is a state  *)
(* in which the awaited backend call is in flight; the action that         *)
(* resolves it runs the handler up to its next await.                      *)
(***************************************************************************)
EXTENDS Integers, Sequences, FiniteSets, TLC

\* ------------------------------------------------------------------ bounds
MaxItems == 2
MaxQty == 2
MaxColRuns == 2
MaxCollects == 1
MaxPayRuns == 1
MaxOrders == 2
MaxSprings == 2

ColRuns == 1..MaxColRuns
PayRuns == 1..MaxPayRuns

\* ------------------------------------------------------------- data model
\* Two springs: p1 was mapped with selectionNumber, vmId and storeId, p2
\* lacks the spring metadata (the fields are optional in Product).
Products == {"p1", "p2"}

Product(p) == [id |-> p, complete |-> (p = "p1")]

NoStore == "none"
NoError == "none"
NoMethod == "none"

Order(n) == [id |-> n, dispensed |-> FALSE, refundItems |-> -1, refundId |-> "none"]

NoOrder == Order(0)

\* The carts a customer can arrive with (cartStore.items, product ids in order).
CartChoices == {<<>>, <<"p1">>, <<"p2">>, <<"p1", "p2">>}

\* Backend order items as returned by GET /orders/{id}.
BackendOrderItem == [hasId : BOOLEAN, spring_id : Products, quantity : 1..MaxQty]


VARIABLES
  route, cart, storeId, currentOrder, selectedPaymentMethod,
  isLoading, isDispensing, dispensedCount,
  payError, payRun,
  status, previousStatusRef, isCheckingRef, checksInFlight, pollTimer, visListener, visible, checkOrigin,
  hookOpts, hookLog,
  phase, error, dispensedItems, failedItems, colRun,
  orders, collects, failed, reissued,
  urlParams, envCreds, storedCreds, tokenStorage, tokenLog, fetchRun,
  products, springs, productsError, loading,
  ageVerification, appStorage, reloadLog

storeVars == <<storeId, currentOrder, selectedPaymentMethod, isLoading, isDispensing, dispensedCount>>
hookVars == <<status, previousStatusRef, isCheckingRef, checksInFlight, pollTimer, visListener, visible,
              checkOrigin, hookOpts, hookLog>>
payVars == <<payError, payRun>>
colVars == <<phase, error, dispensedItems, failedItems, colRun>>
histVars == <<failed, reissued>>
\* The state of the payment and dispensing pages, and the state of the
\* products page with the REST client's authentication.
appVars == <<route, cart, storeVars, payVars, hookVars, colVars, orders, collects, histVars>>
authVars == <<urlParams, envCreds, storedCreds, tokenStorage, tokenLog>>
prodVars == <<authVars, fetchRun, products, springs, productsError, loading>>
\* The rest of the app store, what persist keeps of it in localStorage, and
\* the record of the last reload.
persistVars == <<ageVerification, appStorage, reloadLog>>
vars == <<appVars, prodVars, persistVars>>

\* ---------------------------------------------------- payment page: locals
\* Card takes the branch of Swish everywhere in handlePay and is left out.
Methods == {"razorpay", "swish"}

VMStatus == {"online", "offline", "checking", "error"}

IdlePay ==
  [pc |-> "idle", method |-> NoMethod, vmStatus |-> "none", vmConnected |-> "none",
   order |-> 0, opened |-> FALSE, verified |-> FALSE, stored |-> FALSE, navigated |-> FALSE]

\* ------------------------------------------------------ useVMStatus: locals
\* The options the payment page passes: no toasts, no onStatusChange.
PaymentPageOpts == [showToasts |-> FALSE, onStatusChange |-> FALSE]

EmptyLog == [lastYield |-> "none", prevYield |-> "none", lastToast |-> FALSE, lateReport |-> FALSE]

\* --------------------------------------------------- products page: locals
NoCreds == [id |-> "", secret |-> ""]

NoStored == [present |-> FALSE, id |-> "", secret |-> ""]

\* No answer to the token request of getHeaders yet.
NoAnswer == [received |-> FALSE, ok |-> FALSE, access_token |-> ""]

\* fetchProducts: where it is, the token its API request carries, the answer
\* to the token request of getHeaders and the Authorization header of the
\* API request ("" while none was sent).
IdleFetch == [pc |-> "idle", bearer |-> 0, tokenAnswer |-> NoAnswer, authorization |-> ""]

\* The products page is not open; the build carries its credentials.
ProductsIdle ==
  /\ urlParams = [storeId |-> "", id |-> "", secret |-> ""]
  /\ envCreds = [id |-> "env", secret |-> "env"]
  /\ storedCreds = NoStored
  /\ tokenStorage = 0
  /\ tokenLog = [requests |-> 0, sent |-> NoCreds]
  /\ fetchRun = IdleFetch
  /\ products = <<>>
  /\ springs = <<>>
  /\ productsError = NoError
  /\ loading = TRUE

\* ------------------------------------------------------- app store: locals
\* The state useAppStore holds.
StoreState ==
  [storeId |-> storeId,
   ageVerification |-> ageVerification,
   currentOrder |-> currentOrder,
   selectedPaymentMethod |-> selectedPaymentMethod,
   isLoading |-> isLoading,
   isDispensing |-> isDispensing,
   dispensedCount |-> dispensedCount]

\* A field that is undefined, a Date object, and the ISO string JSON holds
\* for a date.
Undefined == [kind |-> "undefined", at |-> 0]

DateAt(t) == [kind |-> "Date", at |-> t]

StringAt(t) == [kind |-> "string", at |-> t]

\* { status: 'none' }
NoVerification ==
  [status |-> "none", idType |-> "", verifiedAt |-> Undefined, expiresAt |-> Undefined]

\* The state the store is created with.
InitialState ==
  [storeId |-> NoStore,
   ageVerification |-> NoVerification,
   currentOrder |-> NoOrder,
   selectedPaymentMethod |-> NoMethod,
   isLoading |-> FALSE,
   isDispensing |-> FALSE,
   dispensedCount |-> 0]

\* partialize: what persist writes to localStorage under 'vm-app-storage'.
partialize(state) ==
  [storeId |-> state.storeId,
   ageVerification |-> state.ageVerification]

\* JSON.stringify of a field: a Date is written as its ISO string (toJSON).
DateToJSON(field) == IF field.kind = "Date" THEN StringAt(field.at) ELSE field

\* What persist's JSON storage holds for the persisted part: the dates of
\* ageVerification as strings, which is what JSON.parse gives back.
toJSON(persisted) ==
  [persisted EXCEPT !.ageVerification =
     [@ EXCEPT !.verifiedAt = DateToJSON(@), !.expiresAt = DateToJSON(@)]]

\* { ...current, ...over }: the fields of over replace those of current.
Spread(current, over) ==
  [k \in DOMAIN current |-> IF k \in DOMAIN over THEN over[k] ELSE current[k]]

NoReload == [fresh |-> FALSE, before |-> InitialState]

\* The store as persist has just hydrated and written it: localStorage holds
\* the persisted part of the state, nothing was reloaded yet.
Hydrated ==
  /\ ageVerification = InitialState.ageVerification
  /\ appStorage = toJSON(partialize(StoreState))
  /\ reloadLog = NoReload

\* ------------------------------------------------- dispensing page: locals
\* No answer of getOrder yet.
NoCheck == [payment_verified |-> FALSE, order_status |-> "none"]

IdleCol ==
  [pc |-> "idle", upd |-> "none", order |-> NoOrder, check |-> NoCheck,
   n |-> 0, items |-> <<>>, i |-> 0, u |-> 0,
   successCount |-> 0, succeeded |-> {}, failedProducts |-> <<>>, failedItemsForRefund |-> <<>>,
   dispenseCalls |-> 0, prevCall |-> "none", lastCall |-> "none",
   refundRequest |-> <<>>, refundCreated |-> FALSE, refundProcessed |-> FALSE,
   outcome |-> "none"]

\* The first free invocation slot (invocations are interchangeable).  collects
\* counts the invocations that have ended; MaxCollects caps how often the
\* user starts over after one has ended.
FreeColRun(r) == colRun[r].pc = "idle" /\ \A q \in ColRuns : q < r => colRun[q].pc # "idle"

\* Faulty variant of Screen: the Collect button stays on screen while a run
\* is dispensing.
ScreenKeepsButton ==
  IF phase \in {"ready", "dispensing"} THEN "ready"
  ELSE IF error # NoError THEN "error"
  ELSE IF phase = "partial" /\ (currentOrder.refundItems >= 0 \/ failedItems > 0) THEN "partial"
  ELSE "complete"

\* What the component renders (the chain of returns of DispensingPage).
Screen ==
  IF phase = "ready" THEN "ready"
  ELSE IF phase = "dispensing" THEN "dispensing"
  ELSE IF error # NoError THEN "error"
  ELSE IF phase = "partial" /\ (currentOrder.refundItems >= 0 \/ failedItems > 0) THEN "partial"
  ELSE "complete"

\* product.selectionNumber && product.vmId && product.storeId: the spring
\* metadata only comes from the cart item with the same product id.
HasRequiredFields(item) ==
  \E k \in 1..Len(cart) : cart[k] = item.spring_id /\ Product(cart[k]).complete

\* Start a backend call of the run: it is in flight until its Done action.
IssueCol(run, call) ==
  [run EXCEPT !.pc = call, !.prevCall = run.lastCall, !.lastCall = call,
              !.dispenseCalls = IF call = "dispenseProduct" THEN @ + 1 ELSE @]

Rejected(i, item) == [item |-> i, unit |-> -1, quantity |-> item.quantity]

FailedUnit(i, u) == [item |-> i, unit |-> u, quantity |-> 1]

\* Top of the for-of loop body for item i, which is it.
BeginItem(run, i, it) ==
  IF ~it.hasId \/ ~HasRequiredFields(it)
    THEN IssueCol([run EXCEPT !.i = i, !.u = 0, !.upd = "rejected",
                              !.items = Append(@, it),
                              !.failedProducts = Append(@, Rejected(i, it))],
                  "updateDispenseStatus")
    ELSE IssueCol([run EXCEPT !.i = i, !.u = 0, !.upd = "none", !.items = Append(@, it)],
                  "dispenseProduct")

\* Faulty variant of NextItem: the loop is left after the first item.
NextItemFirstOnly(run, i) ==
  IF i > 1
    THEN {IssueCol([run EXCEPT !.i = i, !.u = 0, !.upd = "none"], "completeDispense")}
    ELSE {BeginItem(run, i, it) : it \in BackendOrderItem}

\* The for-of loop moves on to item i, or to the code after the loop.  The
\* response of getOrder fixes the n items; the model draws the content of an
\* item when the loop reaches it, which is when the handler first reads it.
NextItem(run, i) ==
  IF i > run.n
    THEN {IssueCol([run EXCEPT !.i = i, !.u = 0, !.upd = "none"], "completeDispense")}
    ELSE {BeginItem(run, i, it) : it \in BackendOrderItem}

\* Faulty variant of NextUnit: only the first unit of an item is dispensed.
NextUnitFirstOnly(run) == NextItem(run, run.i + 1)

\* End of one iteration of the per-unit loop.
NextUnit(run) ==
  IF run.u + 1 < run.items[run.i].quantity
    THEN {IssueCol([run EXCEPT !.u = @ + 1, !.upd = "none"], "dispenseProduct")}
    ELSE NextItem(run, run.i + 1)

\* The key under which a call counts as "the same call" when it is issued again.
CallKey(owner, run, call) ==
  IF call \in {"dispenseProduct", "updateDispenseStatus"}
    THEN <<call, owner, run.i, run.u>>
    ELSE <<call, owner, 0, 0>>

\* Bookkeeping of failures and automatic re-issues.  user: the step is a user
\* action; failedKey: the key of the call that failed in this step (or <<>>);
\* issuedKey: the key of the call this step issues (or <<>>).
Track(user, failedKey, issuedKey) ==
  LET f == (IF user THEN {} ELSE failed) \cup (IF failedKey = <<>> THEN {} ELSE {failedKey})
  IN /\ failed' = f
     /\ reissued' = IF ~user /\ issuedKey # <<>> /\ issuedKey \in f
                      THEN reissued \cup {issuedKey[1]} ELSE reissued

IssuedKey(owner, run) == IF run.pc = "idle" THEN <<>> ELSE CallKey(owner, run, run.pc)


\* --------------------------------------------- dispensing page: handleCollect
\* setError, setIsDispensing(false), setPhase('ready') and return: the early
\* returns inside the try block and the outer catch do the same.
Halt(r, msg) ==
  /\ error' = msg
  /\ isDispensing' = FALSE
  /\ phase' = "ready"
  /\ colRun' = [colRun EXCEPT ![r] = [@ EXCEPT !.pc = "idle", !.outcome = "halted"]]
  /\ collects' = collects + 1

\* Faulty variant of ResultPhase: any failure gives 'partial', also when no
\* unit was dispensed.
ResultPhaseIgnoringSuccess(run) ==
  IF Len(run.failedProducts) = 0 THEN "complete" ELSE "partial"

\* The branch "Check results" takes: all dispensed, partial success, or all
\* failed (back to 'ready').
ResultPhase(run) ==
  IF Len(run.failedProducts) = 0 THEN "complete"
  ELSE IF run.successCount > 0 THEN "partial"
  ELSE "ready"

\* "Check results" at the end of handleCollect; cur is currentOrder as the
\* refund step left it, run.order the order captured by the handler.
Results(r, run, cur) ==
  /\ isDispensing' = FALSE
  /\ colRun' = [colRun EXCEPT ![r] = [run EXCEPT !.pc = "idle", !.outcome = "finished"]]
  /\ collects' = collects + 1
  /\ IF ResultPhase(run) = "complete"
       THEN /\ phase' = "complete"
            /\ currentOrder' = [run.order EXCEPT !.dispensed = TRUE]
            /\ UNCHANGED <<error, failedItems>>
     ELSE IF ResultPhase(run) = "partial"
       THEN /\ phase' = "partial"
            /\ failedItems' = Len(run.failedProducts)
            /\ currentOrder' = [run.order EXCEPT !.dispensed = TRUE,
                                                 !.refundItems = Len(run.failedProducts),
                                                 !.refundId = "local"]
            /\ UNCHANGED error
     ELSE /\ error' = "all_failed"
          /\ phase' = "ready"
          /\ currentOrder' = cur
          /\ UNCHANGED failedItems

\* The user presses "Collect Products".
HandleCollect(r) ==
  /\ route = "/dispensing"
  /\ Screen = "ready"
  /\ FreeColRun(r)
  /\ collects < MaxCollects
  /\ IF storeId = NoStore
       THEN /\ error' = "store_missing"
            /\ colRun' = [colRun EXCEPT ![r] = [IdleCol EXCEPT !.outcome = "halted"]]
            /\ collects' = collects + 1
            /\ UNCHANGED <<phase, isDispensing, failedItems>>
     ELSE IF currentOrder.id = 0
       THEN /\ error' = "order_missing"
            /\ colRun' = [colRun EXCEPT ![r] = [IdleCol EXCEPT !.outcome = "halted"]]
            /\ collects' = collects + 1
            /\ UNCHANGED <<phase, isDispensing, failedItems>>
     ELSE /\ phase' = "dispensing"
          /\ UNCHANGED collects
          /\ isDispensing' = TRUE
          /\ error' = NoError
          /\ failedItems' = 0
          /\ colRun' = [colRun EXCEPT ![r] =
                 IssueCol([IdleCol EXCEPT !.order = currentOrder, !.outcome = "running"],
                          "getOrderCheck")]
  /\ Track(TRUE, <<>>, <<>>)
  /\ UNCHANGED <<route, cart, storeId, currentOrder, selectedPaymentMethod, isLoading,
                 dispensedCount, payVars, hookVars, dispensedItems, orders>>

\* Faulty variant of PaymentCheck: order_status is not looked at.
PaymentCheckVerifiedOnly(backendOrderCheck) ==
  IF ~backendOrderCheck.payment_verified THEN "payment_not_verified" ELSE NoError

\* The security check of step 1: the error it sets, or none.
PaymentCheck(backendOrderCheck) ==
  IF ~backendOrderCheck.payment_verified THEN "payment_not_verified"
  ELSE IF backendOrderCheck.order_status # "paid" THEN "not_paid"
  ELSE NoError

\* Step 1: getOrder (payment check) returns or throws.
GetOrderCheckDone(r) ==
  /\ colRun[r].pc = "getOrderCheck"
  /\ \/ /\ Halt(r, "exception")
        /\ Track(FALSE, CallKey(r, colRun[r], "getOrder"), <<>>)
     \/ \E backendOrderCheck \in [payment_verified : BOOLEAN, order_status : {"paid", "pending"}] :
          /\ IF PaymentCheck(backendOrderCheck) # NoError
               THEN Halt(r, PaymentCheck(backendOrderCheck))
               ELSE /\ colRun' = [colRun EXCEPT ![r] =
                          IssueCol([@ EXCEPT !.check = backendOrderCheck], "initiateDispense")]
                    /\ UNCHANGED <<error, isDispensing, phase, collects>>
          /\ Track(FALSE, <<>>, IssuedKey(r, colRun'[r]))
  /\ UNCHANGED <<route, cart, storeId, currentOrder, selectedPaymentMethod, isLoading,
                 dispensedCount, payVars, hookVars, dispensedItems, failedItems, orders>>

\* Step 2: initiateDispense returns or throws.
InitiateDispenseDone(r) ==
  /\ colRun[r].pc = "initiateDispense"
  /\ \/ /\ Halt(r, "exception")
        /\ Track(FALSE, CallKey(r, colRun[r], "initiateDispense"), <<>>)
     \/ /\ colRun' = [colRun EXCEPT ![r] = IssueCol(@, "getOrderItems")]
        /\ UNCHANGED <<error, isDispensing, phase, collects>>
        /\ Track(FALSE, <<>>, IssuedKey(r, colRun'[r]))
  /\ UNCHANGED <<route, cart, storeId, currentOrder, selectedPaymentMethod, isLoading,
                 dispensedCount, payVars, hookVars, dispensedItems, failedItems, orders>>

\* Step 3: getOrder (items) returns the backend order items or throws; the
\* handler then enters the loop and runs to its first await.
GetOrderItemsDone(r) ==
  /\ colRun[r].pc = "getOrderItems"
  /\ \/ /\ Halt(r, "exception")
        /\ Track(FALSE, CallKey(r, colRun[r], "getOrder"), <<>>)
     \/ \E len \in 0..MaxItems :
          /\ IF len = 0 THEN Halt(r, "no_items")
             ELSE /\ \E nr \in NextItem([colRun[r] EXCEPT !.n = len], 1) :
                       colRun' = [colRun EXCEPT ![r] = nr]
                  /\ UNCHANGED <<error, isDispensing, phase, collects>>
          /\ Track(FALSE, <<>>, IssuedKey(r, colRun'[r]))
  /\ UNCHANGED <<route, cart, storeId, currentOrder, selectedPaymentMethod, isLoading,
                 dispensedCount, payVars, hookVars, dispensedItems, failedItems, orders>>

\* dispenseProduct for unit u of item i returns success, returns
\* success = false, or throws into the catch of the per-unit loop.
DispenseProductDone(r) ==
  /\ colRun[r].pc = "dispenseProduct"
  /\ LET run == colRun[r]
         key == CallKey(r, run, "dispenseProduct")
         fu == FailedUnit(run.i, run.u)
     IN \/ /\ colRun' = [colRun EXCEPT ![r] =
                  IssueCol([run EXCEPT !.successCount = @ + 1,
                                       !.succeeded = @ \cup {<<run.i, run.u>>},
                                       !.upd = "try"],
                           "updateDispenseStatus")]
           /\ dispensedItems' = run.successCount + 1
           /\ dispensedCount' = run.successCount + 1
           /\ Track(FALSE, <<>>, IssuedKey(r, colRun'[r]))
        \/ /\ colRun' = [colRun EXCEPT ![r] =
                  IssueCol([run EXCEPT !.failedProducts = Append(@, fu),
                                       !.failedItemsForRefund = Append(@, fu),
                                       !.upd = "try"],
                           "updateDispenseStatus")]
           /\ UNCHANGED <<dispensedItems, dispensedCount>>
           /\ Track(FALSE, key, IssuedKey(r, colRun'[r]))
        \/ /\ colRun' = [colRun EXCEPT ![r] =
                  IssueCol([run EXCEPT !.failedProducts = Append(@, fu),
                                       !.failedItemsForRefund = Append(@, fu),
                                       !.upd = "catch"],
                           "updateDispenseStatus")]
           /\ UNCHANGED <<dispensedItems, dispensedCount>>
           /\ Track(FALSE, key, IssuedKey(r, colRun'[r]))
  /\ UNCHANGED <<route, cart, storeId, currentOrder, selectedPaymentMethod, isLoading,
                 isDispensing, payVars, hookVars, phase, error, failedItems, orders, collects>>

\* updateDispenseStatus returns or throws.  Called for a rejected item it is
\* outside the inner try; called after dispenseProduct it is inside it, so a
\* throw lands in the catch of the per-unit loop; called from that catch its
\* own throw is swallowed.
UpdateDispenseStatusDone(r) ==
  /\ colRun[r].pc = "updateDispenseStatus"
  /\ LET run == colRun[r]
         key == CallKey(r, run, "updateDispenseStatus")
         fu == FailedUnit(run.i, run.u)
     IN \/ /\ \E nr \in (IF run.upd = "rejected" THEN NextItem(run, run.i + 1)
                                                   ELSE NextUnit(run)) :
                colRun' = [colRun EXCEPT ![r] = nr]
           /\ UNCHANGED <<error, isDispensing, phase, collects>>
           /\ Track(FALSE, <<>>, IssuedKey(r, colRun'[r]))
        \/ /\ run.upd = "rejected"
           /\ Halt(r, "exception")
           /\ Track(FALSE, key, <<>>)
        \/ /\ run.upd = "try"
           /\ colRun' = [colRun EXCEPT ![r] =
                  IssueCol([run EXCEPT !.failedProducts = Append(@, fu),
                                       !.failedItemsForRefund = Append(@, fu),
                                       !.upd = "catch"],
                           "updateDispenseStatus")]
           /\ UNCHANGED <<error, isDispensing, phase, collects>>
           /\ Track(FALSE, key, IssuedKey(r, colRun'[r]))
        \/ /\ run.upd = "catch"
           /\ \E nr \in NextUnit(run) : colRun' = [colRun EXCEPT ![r] = nr]
           /\ UNCHANGED <<error, isDispensing, phase, collects>>
           /\ Track(FALSE, key, IssuedKey(r, colRun'[r]))
  /\ UNCHANGED <<route, cart, storeId, currentOrder, selectedPaymentMethod, isLoading,
                 dispensedCount, payVars, hookVars, dispensedItems, failedItems, orders>>

\* Step 5: completeDispense returns (the cart is cleared unless the order
\* failed) or throws; step 6 starts the refund when a dispense failed.
CompleteDispenseDone(r) ==
  /\ colRun[r].pc = "completeDispense"
  /\ LET run == colRun[r]
     IN \/ /\ Halt(r, "exception")
           /\ Track(FALSE, CallKey(r, run, "completeDispense"), <<>>)
           /\ UNCHANGED <<cart, currentOrder, failedItems>>
        \/ \E st \in {"failed", "completed"} :
             /\ cart' = IF st # "failed" THEN <<>> ELSE cart
             /\ IF Len(run.failedItemsForRefund) > 0
                  THEN /\ colRun' = [colRun EXCEPT ![r] =
                              IssueCol([run EXCEPT !.refundRequest = run.failedItemsForRefund],
                                       "createRefund")]
                       /\ UNCHANGED <<error, isDispensing, phase, currentOrder, failedItems, collects>>
                  ELSE Results(r, run, currentOrder)
             /\ Track(FALSE, <<>>, IssuedKey(r, colRun'[r]))
  /\ UNCHANGED <<route, storeId, selectedPaymentMethod, isLoading,
                 dispensedCount, payVars, hookVars, dispensedItems, orders>>

\* createRefund returns (processRefund is started) or throws (logged only).
CreateRefundDone(r) ==
  /\ colRun[r].pc = "createRefund"
  /\ LET run == colRun[r]
     IN \/ /\ Results(r, run, currentOrder)
           /\ Track(FALSE, CallKey(r, run, "createRefund"), <<>>)
        \/ /\ colRun' = [colRun EXCEPT ![r] =
                  IssueCol([run EXCEPT !.refundCreated = TRUE], "processRefund")]
           /\ UNCHANGED <<error, isDispensing, phase, currentOrder, failedItems, collects>>
           /\ Track(FALSE, <<>>, IssuedKey(r, colRun'[r]))
  /\ UNCHANGED <<route, cart, storeId, selectedPaymentMethod, isLoading,
                 dispensedCount, payVars, hookVars, dispensedItems, orders>>

\* processRefund returns (the refund is stored in the order) or throws.
ProcessRefundDone(r) ==
  /\ colRun[r].pc = "processRefund"
  /\ LET run == colRun[r]
     IN \/ /\ Results(r, run, currentOrder)
           /\ Track(FALSE, CallKey(r, run, "processRefund"), <<>>)
        \/ /\ Results(r, [run EXCEPT !.refundProcessed = TRUE],
                      [run.order EXCEPT !.dispensed = TRUE,
                                        !.refundItems = Len(run.failedProducts),
                                        !.refundId = "backend"])
           /\ Track(FALSE, <<>>, <<>>)
  /\ UNCHANGED <<route, cart, storeId, selectedPaymentMethod, isLoading,
                 dispensedCount, payVars, hookVars, dispensedItems, orders>>

NextCollect ==
  /\ \E r \in ColRuns :
       \/ HandleCollect(r)
       \/ GetOrderCheckDone(r)
       \/ InitiateDispenseDone(r)
       \/ GetOrderItemsDone(r)
       \/ DispenseProductDone(r)
       \/ UpdateDispenseStatusDone(r)
       \/ CompleteDispenseDone(r)
       \/ CreateRefundDone(r)
       \/ ProcessRefundDone(r)
  /\ UNCHANGED <<prodVars, persistVars>>

\* The dispensing page has just been mounted: after a verified payment, or
\* opened directly (no order), with or without a store id and a cart.
InitCollect ==
  /\ route = "/dispensing"
  /\ cart \in CartChoices
  /\ storeId \in {NoStore, "s1"}
  /\ currentOrder \in {NoOrder, Order(1)}
  /\ selectedPaymentMethod = NoMethod
  /\ isLoading = FALSE
  /\ isDispensing = FALSE
  /\ dispensedCount = 0
  /\ payError = FALSE
  /\ payRun = [p \in PayRuns |-> IdlePay]
  /\ status = "checking"
  /\ previousStatusRef = "checking"
  /\ isCheckingRef = FALSE
  /\ checksInFlight = 0
  /\ pollTimer = FALSE
  /\ visListener = FALSE
  /\ visible = TRUE
  /\ checkOrigin = "none"
  /\ hookOpts = PaymentPageOpts
  /\ hookLog = EmptyLog
  /\ phase = "ready"
  /\ error = NoError
  /\ dispensedItems = 0
  /\ failedItems = 0
  /\ colRun = [r \in ColRuns |-> IdleCol]
  /\ orders = 0
  /\ collects = 0
  /\ failed = {}
  /\ reissued = {}
  /\ ProductsIdle
  /\ Hydrated

SpecCollect == InitCollect /\ [][NextCollect]_vars


\* ------------------------------------------------- payment page: useVMStatus
\* firstProduct?.storeId || storeIdFromStore, and firstProduct?.vmId.
PayStoreId ==
  IF Len(cart) > 0 /\ Product(cart[1]).complete THEN "s1" ELSE storeId

PayVmId == IF Len(cart) > 0 /\ Product(cart[1]).complete THEN "vm1" ELSE "none"

\* enabled: !!storeId && !!vmId
HookEnabled == PayStoreId # NoStore /\ PayVmId # "none"

HookKey == <<"getConnectionStatus", 0, 0, 0>>

\* Faulty variant of CheckStatus: no guard on isCheckingRef.
CheckStatusUnguarded(origin) ==
  /\ isCheckingRef' = TRUE
  /\ status' = IF route = "/payment" THEN "checking" ELSE status
  /\ previousStatusRef' = "checking"
  /\ checksInFlight' = checksInFlight + 1
  /\ checkOrigin' = origin
  /\ Track(origin = "user", <<>>, HookKey)

\* checkStatus up to its await: the guard on isCheckingRef, then
\* updateStatus('checking') and the request.  checkOrigin records what
\* started the check in flight: the mount effect, the interval, the
\* visibility listener or the user.
CheckStatus(origin) ==
  IF isCheckingRef
    THEN /\ UNCHANGED <<status, previousStatusRef, isCheckingRef, checksInFlight, checkOrigin>>
         /\ Track(origin = "user", <<>>, <<>>)
    ELSE /\ isCheckingRef' = TRUE
         /\ status' = IF route = "/payment" THEN "checking" ELSE status
         /\ previousStatusRef' = "checking"
         /\ checksInFlight' = checksInFlight + 1
         /\ checkOrigin' = origin
         /\ Track(origin = "user", <<>>, HookKey)

\* The interval set up by the polling effect fires.
PollTick ==
  /\ pollTimer
  /\ CheckStatus("timer")
  /\ UNCHANGED <<route, cart, storeVars, payVars, pollTimer, visListener, visible, hookOpts, hookLog,
                 colVars, orders, collects>>

\* The page is hidden or shown again: the visibilitychange listener checks
\* the status when the page has become visible.
VisibilityChange ==
  /\ visible' = ~visible
  /\ IF visListener /\ ~visible
       THEN CheckStatus("visibility")
       ELSE UNCHANGED <<status, previousStatusRef, isCheckingRef, checksInFlight, checkOrigin,
                        histVars>>
  /\ UNCHANGED <<route, cart, storeVars, payVars, pollTimer, visListener, hookOpts, hookLog,
                 colVars, orders, collects>>

\* The user presses "Retry Connection", shown while the VM is offline.
RetryConnection ==
  /\ route = "/payment"
  /\ status = "offline"
  /\ CheckStatus("user")
  /\ UNCHANGED <<route, cart, storeVars, payVars, pollTimer, visListener, visible, hookOpts, hookLog,
                 colVars, orders, collects>>

\* updateStatus: the toast is shown when toasts are on, the status differs
\* from previousStatusRef and is not 'checking', and it is not the step from
\* 'checking' to 'online'.
ShowsToast(previousStatus, newStatus) ==
  /\ hookOpts.showToasts
  /\ newStatus # previousStatus
  /\ newStatus # "checking"
  /\ ~(previousStatus = "checking" /\ newStatus = "online")

\* updateStatus: onStatusChange is called when it was passed and the status
\* differs from previousStatusRef.
CallsBack(previousStatus, newStatus) ==
  hookOpts.onStatusChange /\ newStatus # previousStatus

\* What a completed check leaves in the log: with toasts on, the statuses
\* the last two completed checks yielded and whether the last one showed a
\* toast; and whether a status was reported (state update of a mounted
\* component, toast or callback) after the effects had been cleaned up.
Logged(res) ==
  LET toast == ShowsToast(previousStatusRef, res)
      callback == CallsBack(previousStatusRef, res)
  IN [lastYield |-> IF hookOpts.showToasts THEN res ELSE hookLog.lastYield,
      prevYield |-> IF hookOpts.showToasts THEN hookLog.lastYield ELSE hookLog.prevYield,
      lastToast |-> IF hookOpts.showToasts THEN toast ELSE hookLog.lastToast,
      lateReport |-> \/ hookLog.lateReport
                     \/ /\ ~pollTimer
                        /\ checkOrigin # "user"
                        /\ toast \/ callback \/ route = "/payment"]

\* getConnectionStatus returns or throws: updateStatus, then the finally
\* block releases isCheckingRef.
CheckStatusDone ==
  /\ checksInFlight > 0
  /\ \E res \in {"online", "offline", "error"} :
       /\ status' = IF route = "/payment" THEN res ELSE status
       /\ previousStatusRef' = res
       /\ hookLog' = Logged(res)
       /\ Track(FALSE, IF res = "error" THEN HookKey ELSE <<>>, <<>>)
  /\ isCheckingRef' = FALSE
  /\ checksInFlight' = checksInFlight - 1
  /\ checkOrigin' = IF checksInFlight = 1 THEN "none" ELSE checkOrigin
  /\ UNCHANGED <<route, cart, storeVars, payVars, pollTimer, visListener, visible, hookOpts,
                 colVars, orders, collects>>

\* ------------------------------------------------- payment page: handlePay
FreePayRun(p) == payRun[p].pc = "idle" /\ \A q \in PayRuns : q < p => payRun[q].pc # "idle"

ActivePayRuns == {p \in PayRuns : payRun[p].pc # "idle"}

\* The Razorpay checkout covers the page while it is open.
ModalOpen == \E p \in PayRuns : payRun[p].pc = "modal"

PayKey(p, call) == <<call, 0 - p, 0, 0>>

\* Faulty variant of VMBlocksPayment: a failed status check does not stop
\* the payment.
VMBlocksPaymentOfflineOnly(vmStatus) == vmStatus = "offline"

\* The VM status check of handlePay: these statuses stop the payment.
VMBlocksPayment(vmStatus) == vmStatus \in {"offline", "error"}

\* An early return of handlePay or one of its callbacks: setIsLoading(false),
\* and setError when the path sets one.
EndPay(p, run, err) ==
  /\ payRun' = [payRun EXCEPT ![p] = [run EXCEPT !.pc = "idle"]]
  /\ isLoading' = FALSE
  /\ payError' = IF err THEN TRUE ELSE payError

\* Faulty variant of PayCatchNext: the catch block issues the call again.
PayCatchRetry(call) == call

\* Where handlePay continues after its catch block caught the failure of
\* call: nowhere, the handler returns.
PayCatchNext(call) == "idle"

\* The catch block of handlePay (and of the Razorpay handler): the awaited
\* call threw; setIsLoading(false), the error toast and setError.
PayCatch(p, run, call) ==
  /\ payRun' = [payRun EXCEPT ![p] = [run EXCEPT !.pc = PayCatchNext(call)]]
  /\ isLoading' = FALSE
  /\ payError' = TRUE
  /\ Track(FALSE, PayKey(p, call),
           IF PayCatchNext(call) = "idle" THEN <<>> ELSE PayKey(p, PayCatchNext(call)))

\* router.push('/dispensing'): the payment page unmounts (the effects' cleanups
\* clear the interval and remove the listener) and the dispensing page mounts.
PushDispensing ==
  /\ route' = "/dispensing"
  /\ pollTimer' = FALSE
  /\ visListener' = FALSE
  /\ IF route = "/payment"
       THEN /\ phase' = "ready"
            /\ error' = NoError
            /\ dispensedItems' = 0
            /\ failedItems' = 0
       ELSE UNCHANGED <<phase, error, dispensedItems, failedItems>>

\* The user selects a payment method.
SelectMethod(m) ==
  /\ route = "/payment"
  /\ ~ModalOpen
  /\ selectedPaymentMethod # m
  /\ selectedPaymentMethod' = m
  /\ Track(TRUE, <<>>, <<>>)
  /\ UNCHANGED <<route, cart, storeId, currentOrder, isLoading, isDispensing, dispensedCount,
                 payVars, hookVars, colVars, orders, collects>>

\* The user presses the Pay button (enabled once a method is selected).
HandlePay(p) ==
  /\ route = "/payment"
  /\ ~ModalOpen
  /\ selectedPaymentMethod # NoMethod
  /\ FreePayRun(p)
  /\ orders + Cardinality(ActivePayRuns) < MaxOrders
  /\ LET run == [IdlePay EXCEPT !.method = selectedPaymentMethod, !.vmStatus = status]
     IN IF Len(cart) = 0 \/ PayStoreId = NoStore \/ PayVmId = "none"
          THEN /\ payRun' = [payRun EXCEPT ![p] = run]
               /\ isLoading' = FALSE
               /\ payError' = FALSE
        ELSE IF VMBlocksPayment(status)
          THEN /\ payRun' = [payRun EXCEPT ![p] = run]
               /\ isLoading' = FALSE
               /\ payError' = TRUE
        ELSE /\ payRun' = [payRun EXCEPT ![p] = [run EXCEPT !.pc = "validatePrePayment"]]
             /\ isLoading' = TRUE
             /\ payError' = FALSE
  /\ Track(TRUE, <<>>, <<>>)
  /\ UNCHANGED <<route, cart, storeId, currentOrder, selectedPaymentMethod, isDispensing,
                 dispensedCount, hookVars, colVars, orders, collects>>

\* validatePrePayment returns {valid, vm_connected} or throws.
ValidatePrePaymentDone(p) ==
  /\ payRun[p].pc = "validatePrePayment"
  /\ LET run == payRun[p]
     IN \/ /\ PayCatch(p, run, "validatePrePayment")
        \/ \E valid \in BOOLEAN, conn \in BOOLEAN :
             /\ IF ~valid THEN EndPay(p, run, TRUE)
                ELSE IF ~conn THEN EndPay(p, [run EXCEPT !.vmConnected = "no"], TRUE)
                ELSE /\ payRun' = [payRun EXCEPT ![p] =
                            [run EXCEPT !.vmConnected = "yes", !.pc = "createOrder"]]
                     /\ UNCHANGED <<isLoading, payError>>
             /\ Track(FALSE, <<>>,
                      IF valid /\ conn THEN PayKey(p, "createOrder") ELSE <<>>)
  /\ UNCHANGED <<route, cart, storeId, currentOrder, selectedPaymentMethod, isDispensing,
                 dispensedCount, hookVars, colVars, orders, collects>>

\* createOrder returns the backend order or throws; then the branch on the
\* payment method: Razorpay order, or "not yet available" for Swish and Card.
CreateOrderDone(p) ==
  /\ payRun[p].pc = "createOrder"
  /\ LET run == payRun[p]
     IN \/ /\ PayCatch(p, run, "createOrder")
           /\ UNCHANGED orders
        \/ /\ orders' = orders + 1
           /\ IF run.method = "razorpay"
                THEN /\ payRun' = [payRun EXCEPT ![p] =
                            [run EXCEPT !.order = orders + 1, !.pc = "createRazorpayOrder"]]
                     /\ UNCHANGED <<isLoading, payError>>
                     /\ Track(FALSE, <<>>, PayKey(p, "createRazorpayOrder"))
                ELSE /\ EndPay(p, [run EXCEPT !.order = orders + 1], TRUE)
                     /\ Track(FALSE, <<>>, <<>>)
  /\ UNCHANGED <<route, cart, storeId, currentOrder, selectedPaymentMethod, isDispensing,
                 dispensedCount, hookVars, colVars, collects>>

\* createRazorpayOrder returns (the checkout is opened) or throws; a missing
\* Razorpay key throws as well.
CreateRazorpayOrderDone(p) ==
  /\ payRun[p].pc = "createRazorpayOrder"
  /\ LET run == payRun[p]
     IN \/ /\ PayCatch(p, run, "createRazorpayOrder")
        \/ /\ payRun' = [payRun EXCEPT ![p] = [run EXCEPT !.opened = TRUE, !.pc = "modal"]]
           /\ UNCHANGED <<isLoading, payError>>
           /\ Track(FALSE, <<>>, <<>>)
  /\ UNCHANGED <<route, cart, storeId, currentOrder, selectedPaymentMethod, isDispensing,
                 dispensedCount, hookVars, colVars, orders, collects>>

\* The customer pays in the checkout: Razorpay calls options.handler, which
\* starts verifyPayment.
PaymentSuccess(p) ==
  /\ payRun[p].pc = "modal"
  /\ payRun' = [payRun EXCEPT ![p] = [@ EXCEPT !.pc = "verifyPayment"]]
  /\ Track(TRUE, <<>>, <<>>)
  /\ UNCHANGED <<route, cart, storeVars, payError, hookVars, colVars, orders, collects>>

\* The payment attempt fails: the 'payment.failed' listener; the checkout
\* stays open for another attempt.
PaymentFailed(p) ==
  /\ payRun[p].pc = "modal"
  /\ isLoading' = FALSE
  /\ payError' = TRUE
  /\ Track(FALSE, <<>>, <<>>)
  /\ UNCHANGED <<route, cart, storeId, currentOrder, selectedPaymentMethod, isDispensing,
                 dispensedCount, payRun, hookVars, colVars, orders, collects>>

\* Faulty variant of Dismiss: the loading flag is left set.
DismissKeepsLoading(p) ==
  /\ payRun[p].pc = "modal"
  /\ payRun' = [payRun EXCEPT ![p] = [@ EXCEPT !.pc = "idle"]]
  /\ Track(TRUE, <<>>, <<>>)
  /\ UNCHANGED <<route, cart, storeVars, payError, hookVars, colVars, orders, collects>>

\* The customer closes the checkout: modal.ondismiss.
Dismiss(p) ==
  /\ payRun[p].pc = "modal"
  /\ EndPay(p, payRun[p], FALSE)
  /\ Track(TRUE, <<>>, <<>>)
  /\ UNCHANGED <<route, cart, storeId, currentOrder, selectedPaymentMethod, isDispensing,
                 dispensedCount, hookVars, colVars, orders, collects>>

\* verifyPayment returns (the order is stored and the app goes to
\* /dispensing) or throws.
VerifyPaymentDone(p) ==
  /\ payRun[p].pc = "verifyPayment"
  /\ LET run == payRun[p]
     IN \/ /\ PayCatch(p, run, "verifyPayment")
           /\ UNCHANGED <<route, currentOrder, pollTimer, visListener,
                          phase, error, dispensedItems, failedItems>>
        \/ /\ EndPay(p, [run EXCEPT !.verified = TRUE, !.stored = TRUE, !.navigated = TRUE],
                     FALSE)
           /\ currentOrder' = Order(run.order)
           /\ PushDispensing
           /\ Track(FALSE, <<>>, <<>>)
  /\ UNCHANGED <<cart, storeId, selectedPaymentMethod, isDispensing, dispensedCount,
                 status, previousStatusRef, isCheckingRef, checksInFlight, visible, checkOrigin,
                 hookOpts, hookLog,
                 colRun,
                 orders, collects>>

NextPay ==
  /\ \/ PollTick
     \/ VisibilityChange
     \/ RetryConnection
     \/ CheckStatusDone
     \/ \E m \in Methods : SelectMethod(m)
     \/ \E p \in PayRuns :
          \/ HandlePay(p)
          \/ ValidatePrePaymentDone(p)
          \/ CreateOrderDone(p)
          \/ CreateRazorpayOrderDone(p)
          \/ PaymentSuccess(p)
          \/ PaymentFailed(p)
          \/ Dismiss(p)
          \/ VerifyPaymentDone(p)
  /\ UNCHANGED <<prodVars, persistVars>>

\* The payment page has just been mounted and its effects have run: with
\* a store and a VM id the monitor has started its initial check, set up the
\* interval and registered the visibility listener.
InitPay ==
  /\ route = "/payment"
  /\ cart \in CartChoices
  /\ storeId \in {NoStore, "s1"}
  /\ currentOrder = NoOrder
  /\ selectedPaymentMethod = NoMethod
  /\ isLoading = FALSE
  /\ isDispensing = FALSE
  /\ dispensedCount = 0
  /\ payError = FALSE
  /\ payRun = [p \in PayRuns |-> IdlePay]
  /\ status = "checking"
  /\ previousStatusRef = "checking"
  /\ isCheckingRef = HookEnabled
  /\ checksInFlight = IF HookEnabled THEN 1 ELSE 0
  /\ pollTimer = HookEnabled
  /\ visListener = HookEnabled
  /\ visible = TRUE
  /\ checkOrigin = IF HookEnabled THEN "effect" ELSE "none"
  /\ hookOpts = PaymentPageOpts
  /\ hookLog = EmptyLog
  /\ phase = "ready"
  /\ error = NoError
  /\ dispensedItems = 0
  /\ failedItems = 0
  /\ colRun = [r \in ColRuns |-> IdleCol]
  /\ orders = 0
  /\ collects = 0
  /\ failed = {}
  /\ reissued = {}
  /\ ProductsIdle
  /\ Hydrated

SpecPay == InitPay /\ [][NextPay]_vars


\* ------------------------------------- the older payment page (no VM checks)
\* handlePay of the page without the monitor: the prerequisite checks throw
\* into the catch block.
LegacyHandlePay(p) ==
  /\ route = "/payment"
  /\ ~ModalOpen
  /\ selectedPaymentMethod # NoMethod
  /\ FreePayRun(p)
  /\ orders + Cardinality(ActivePayRuns) < MaxOrders
  /\ LET run == [IdlePay EXCEPT !.method = selectedPaymentMethod]
     IN IF Len(cart) = 0 \/ PayStoreId = NoStore \/ PayVmId = "none"
          THEN /\ payRun' = [payRun EXCEPT ![p] = run]
               /\ isLoading' = FALSE
               /\ payError' = TRUE
          ELSE /\ payRun' = [payRun EXCEPT ![p] = [run EXCEPT !.pc = "validatePrePayment"]]
               /\ isLoading' = TRUE
               /\ payError' = FALSE
  /\ Track(TRUE, <<>>, <<>>)
  /\ UNCHANGED <<route, cart, storeId, currentOrder, selectedPaymentMethod, isDispensing,
                 dispensedCount, hookVars, colVars, orders, collects>>

\* createOrder returns or throws; for Swish and Card the order is stored,
\* the cart cleared and the app goes to /dispensing right away.
LegacyCreateOrderDone(p) ==
  /\ payRun[p].pc = "createOrder"
  /\ LET run == payRun[p]
     IN \/ /\ PayCatch(p, run, "createOrder")
           /\ UNCHANGED <<orders, route, cart, currentOrder, pollTimer, visListener,
                          phase, error, dispensedItems, failedItems>>
        \/ /\ orders' = orders + 1
           /\ IF run.method = "razorpay"
                THEN /\ payRun' = [payRun EXCEPT ![p] =
                            [run EXCEPT !.order = orders + 1, !.pc = "createRazorpayOrder"]]
                     /\ Track(FALSE, <<>>, PayKey(p, "createRazorpayOrder"))
                     /\ UNCHANGED <<isLoading, payError, route, cart, currentOrder, pollTimer,
                                    visListener, phase, error, dispensedItems, failedItems>>
                ELSE /\ EndPay(p, [run EXCEPT !.order = orders + 1, !.stored = TRUE,
                                              !.navigated = TRUE], FALSE)
                     /\ currentOrder' = Order(orders + 1)
                     /\ cart' = <<>>
                     /\ PushDispensing
                     /\ Track(FALSE, <<>>, <<>>)
  /\ UNCHANGED <<storeId, selectedPaymentMethod, isDispensing, dispensedCount,
                 status, previousStatusRef, isCheckingRef, checksInFlight, visible, checkOrigin,
                 hookOpts, hookLog,
                 colRun,
                 collects>>

NextLegacy ==
  /\ \/ \E m \in Methods : SelectMethod(m)
     \/ \E p \in PayRuns :
          \/ LegacyHandlePay(p)
          \/ ValidatePrePaymentDone(p)
          \/ LegacyCreateOrderDone(p)
          \/ CreateRazorpayOrderDone(p)
          \/ PaymentSuccess(p)
          \/ PaymentFailed(p)
          \/ Dismiss(p)
          \/ VerifyPaymentDone(p)
  /\ UNCHANGED <<prodVars, persistVars>>

\* The older payment page has just been mounted; it has no status monitor.
InitLegacy ==
  /\ route = "/payment"
  /\ cart \in CartChoices
  /\ storeId \in {NoStore, "s1"}
  /\ currentOrder = NoOrder
  /\ selectedPaymentMethod = NoMethod
  /\ isLoading = FALSE
  /\ isDispensing = FALSE
  /\ dispensedCount = 0
  /\ payError = FALSE
  /\ payRun = [p \in PayRuns |-> IdlePay]
  /\ status = "checking"
  /\ previousStatusRef = "checking"
  /\ isCheckingRef = FALSE
  /\ checksInFlight = 0
  /\ pollTimer = FALSE
  /\ visListener = FALSE
  /\ visible = TRUE
  /\ checkOrigin = "none"
  /\ hookOpts = PaymentPageOpts
  /\ hookLog = EmptyLog
  /\ phase = "ready"
  /\ error = NoError
  /\ dispensedItems = 0
  /\ failedItems = 0
  /\ colRun = [r \in ColRuns |-> IdleCol]
  /\ orders = 0
  /\ collects = 0
  /\ failed = {}
  /\ reissued = {}
  /\ ProductsIdle
  /\ Hydrated

SpecLegacy == InitLegacy /\ [][NextLegacy]_vars


\* ------------------------------------- useVMStatus under any of its options
\* The component using the hook unmounts: the cleanups of both effects run
\* (clearInterval, removeEventListener).  A request in flight is not aborted.
Unmount ==
  /\ route = "/payment"
  /\ route' = "/products"
  /\ pollTimer' = FALSE
  /\ visListener' = FALSE
  /\ UNCHANGED <<cart, storeVars, payVars, status, previousStatusRef, isCheckingRef, checksInFlight,
                 visible, checkOrigin, hookOpts, hookLog, colVars, orders, collects, histVars>>

\* The parent changes the enabled option of the mounted hook.  To false: the
\* cleanups of both effects run and the effects return early.  To true: the
\* polling effect checks at once and sets the interval, the visibility
\* effect adds its listener.
SetEnabled ==
  /\ route = "/payment"
  /\ pollTimer' = ~pollTimer
  /\ visListener' = ~visListener
  /\ IF pollTimer
       THEN UNCHANGED <<status, previousStatusRef, isCheckingRef, checksInFlight, checkOrigin,
                        histVars>>
       ELSE CheckStatus("effect")
  /\ UNCHANGED <<route, cart, storeVars, payVars, visible, hookOpts, hookLog, colVars, orders,
                 collects>>

\* The component calls the checkStatus or the retryConnection the hook
\* returned, at any time while it is mounted.
ManualCheck ==
  /\ route = "/payment"
  /\ CheckStatus("user")
  /\ UNCHANGED <<route, cart, storeVars, payVars, pollTimer, visListener, visible, hookOpts, hookLog,
                 colVars, orders, collects>>

NextHook ==
  /\ \/ PollTick
     \/ VisibilityChange
     \/ RetryConnection
     \/ ManualCheck
     \/ CheckStatusDone
     \/ Unmount
     \/ SetEnabled
  /\ UNCHANGED <<prodVars, persistVars>>

\* A component with a store and a VM id has mounted the hook with any
\* combination of showToasts and onStatusChange: the initial check is in
\* flight, the interval is set and the listener registered.
InitHook ==
  /\ route = "/payment"
  /\ cart = <<"p1">>
  /\ storeId = "s1"
  /\ HookEnabled
  /\ currentOrder = NoOrder
  /\ selectedPaymentMethod = NoMethod
  /\ isLoading = FALSE
  /\ isDispensing = FALSE
  /\ dispensedCount = 0
  /\ payError = FALSE
  /\ payRun = [p \in PayRuns |-> IdlePay]
  /\ status = "checking"
  /\ previousStatusRef = "checking"
  /\ isCheckingRef = TRUE
  /\ checksInFlight = 1
  /\ pollTimer = TRUE
  /\ visListener = TRUE
  /\ visible = TRUE
  /\ checkOrigin = "effect"
  /\ hookOpts \in [showToasts : BOOLEAN, onStatusChange : BOOLEAN]
  /\ hookLog = EmptyLog
  /\ phase = "ready"
  /\ error = NoError
  /\ dispensedItems = 0
  /\ failedItems = 0
  /\ colRun = [r \in ColRuns |-> IdleCol]
  /\ orders = 0
  /\ collects = 0
  /\ failed = {}
  /\ reissued = {}
  /\ ProductsIdle
  /\ Hydrated

SpecHook == InitHook /\ [][NextHook]_vars


\* ---------------------------------------------------- app store: useAppStore
\* set(...) under persist: the new state, and its persisted part written to
\* localStorage.
Set(new) ==
  /\ storeId' = new.storeId
  /\ ageVerification' = new.ageVerification
  /\ currentOrder' = new.currentOrder
  /\ selectedPaymentMethod' = new.selectedPaymentMethod
  /\ isLoading' = new.isLoading
  /\ isDispensing' = new.isDispensing
  /\ dispensedCount' = new.dispensedCount
  /\ appStorage' = toJSON(partialize(new))
  /\ reloadLog' = NoReload

setStoreId == \E id \in {"s1", "s2"} : Set([StoreState EXCEPT !.storeId = id])

\* The partial verifications AgeVerificationPage passes.
Verifications ==
  {[status |-> "approved", idType |-> "bankid", verifiedAt |-> DateAt(1), expiresAt |-> DateAt(2)],
   [status |-> "rejected"], [status |-> "failed"], [status |-> "none"]}

setAgeVerification ==
  \E verification \in Verifications :
    Set([StoreState EXCEPT !.ageVerification = Spread(ageVerification, verification)])

resetAgeVerification ==
  Set([StoreState EXCEPT !.ageVerification = NoVerification])

setCurrentOrder == \E order \in {NoOrder, Order(1)} : Set([StoreState EXCEPT !.currentOrder = order])

setSelectedPaymentMethod ==
  \E method \in Methods \cup {NoMethod} : Set([StoreState EXCEPT !.selectedPaymentMethod = method])

setIsLoading == \E loadingNow \in BOOLEAN : Set([StoreState EXCEPT !.isLoading = loadingNow])

setIsDispensing == \E dispensing \in BOOLEAN : Set([StoreState EXCEPT !.isDispensing = dispensing])

setDispensedCount == \E count \in 0..MaxQty : Set([StoreState EXCEPT !.dispensedCount = count])

\* The page is reloaded: the store is created anew and persist merges what
\* JSON.parse reads from localStorage over the initial state.  reloadLog keeps the state
\* from before the reload until the next set.
Reload ==
  /\ LET state == Spread(InitialState, appStorage)
     IN /\ storeId' = state.storeId
        /\ ageVerification' = state.ageVerification
        /\ currentOrder' = state.currentOrder
        /\ selectedPaymentMethod' = state.selectedPaymentMethod
        /\ isLoading' = state.isLoading
        /\ isDispensing' = state.isDispensing
        /\ dispensedCount' = state.dispensedCount
  /\ reloadLog' = [fresh |-> TRUE, before |-> StoreState]
  /\ UNCHANGED appStorage

NextStore ==
  /\ \/ setStoreId
     \/ setAgeVerification
     \/ resetAgeVerification
     \/ setCurrentOrder
     \/ setSelectedPaymentMethod
     \/ setIsLoading
     \/ setIsDispensing
     \/ setDispensedCount
     \/ Reload
  /\ UNCHANGED <<route, cart, payVars, hookVars, colVars, orders, collects, histVars, prodVars>>

\* The app opened with whatever an earlier visit left in localStorage.
InitStore ==
  /\ route = "/"
  /\ cart = <<>>
  /\ storeId \in {NoStore, "s1"}
  /\ ageVerification \in
       {NoVerification,
        [status |-> "approved", idType |-> "bankid", verifiedAt |-> StringAt(1),
         expiresAt |-> StringAt(2)]}
  /\ currentOrder = NoOrder
  /\ selectedPaymentMethod = NoMethod
  /\ isLoading = FALSE
  /\ isDispensing = FALSE
  /\ dispensedCount = 0
  /\ appStorage = toJSON(partialize(StoreState))
  /\ reloadLog = NoReload
  /\ payError = FALSE
  /\ payRun = [p \in PayRuns |-> IdlePay]
  /\ status = "checking"
  /\ previousStatusRef = "checking"
  /\ isCheckingRef = FALSE
  /\ checksInFlight = 0
  /\ pollTimer = FALSE
  /\ visListener = FALSE
  /\ visible = TRUE
  /\ checkOrigin = "none"
  /\ hookOpts = PaymentPageOpts
  /\ hookLog = EmptyLog
  /\ phase = "ready"
  /\ error = NoError
  /\ dispensedItems = 0
  /\ failedItems = 0
  /\ colRun = [r \in ColRuns |-> IdleCol]
  /\ orders = 0
  /\ collects = 0
  /\ failed = {}
  /\ reissued = {}
  /\ ProductsIdle

SpecStore == InitStore /\ [][NextStore]_vars


\* ------------------------------------------ products page and REST client
\* a || b on strings ('' and undefined are falsy).
Or(a, b) == IF a # "" THEN a ELSE b

\* Faulty variant of ResolveCredentials: the environment variables win over
\* the parameters.
ResolveCredentialsEnvFirst(clientId, clientSecret) ==
  LET id1 == Or(envCreds.id, clientId)
      sec1 == Or(envCreds.secret, clientSecret)
      useStored == (id1 = "" \/ sec1 = "") /\ storedCreds.present
  IN [id |-> IF useStored THEN Or(id1, storedCreds.id) ELSE id1,
      secret |-> IF useStored THEN Or(sec1, storedCreds.secret) ELSE sec1]

\* getAccessToken: which client_id and client_secret go into the request.
ResolveCredentials(clientId, clientSecret) ==
  LET useEnv == clientId = "" \/ clientSecret = ""
      id1 == IF useEnv THEN Or(clientId, envCreds.id) ELSE clientId
      sec1 == IF useEnv THEN Or(clientSecret, envCreds.secret) ELSE clientSecret
      useStored == (id1 = "" \/ sec1 = "") /\ storedCreds.present
  IN [id |-> IF useStored THEN Or(id1, storedCreds.id) ELSE id1,
      secret |-> IF useStored THEN Or(sec1, storedCreds.secret) ELSE sec1]

\* The credentials validation of getAccessToken.
Complete(creds) == creds.id # "" /\ creds.secret # ""

\* Faulty variant of TokenStorageAfter: storeToken is called.
TokenStorageStoring(token) == token

\* localStorage['vm-service-token'] after getAccessToken obtained token: the
\* call of storeToken is commented out, the entry is left as it is.
TokenStorageAfter(token) == tokenStorage

\* Springs as GET /stores/{id}/springs returns them: linked_product is
\* missing, a product, or a string that does not parse.
SpringChoices ==
  [linked : {"none", "ok", "bad"}, inventory : {0, 1},
   spring_status : {"active", "broken", "maintenance"}]

SpringLists ==
  UNION {{[k \in 1..n |-> [id |-> k, linked |-> f[k].linked, inventory |-> f[k].inventory,
                           spring_status |-> f[k].spring_status]] :
            f \in [1..n -> SpringChoices]} : n \in 0..MaxSprings}

\* Faulty variant of Available: an empty spring passes.
AvailableIgnoringInventory(spring) ==
  /\ spring.linked # "none"
  /\ spring.spring_status # "broken"
  /\ spring.spring_status # "maintenance"

\* The predicate of filterAvailableSprings.
Available(spring) ==
  /\ spring.linked # "none"
  /\ spring.inventory > 0
  /\ spring.spring_status # "broken"
  /\ spring.spring_status # "maintenance"

filterAvailableSprings(list) == SelectSeq(list, Available)

NullProduct == [id |-> 0, inventory |-> 0, springStatus |-> "none"]

\* springToProduct: null without a linked_product that parses.
springToProduct(spring) ==
  IF spring.linked # "ok" THEN NullProduct
  ELSE [id |-> spring.id, inventory |-> spring.inventory, springStatus |-> spring.spring_status]

NotNull(product) == product # NullProduct

mapSpringsToProducts(list) ==
  SelectSeq([k \in 1..Len(list) |-> springToProduct(list[k])], NotNull)

\* fetchProducts ends: its catch block sets the error (or a branch set it), and
\* the finally block clears loading.
EndFetch(run, err) ==
  /\ fetchRun' = [run EXCEPT !.pc = "done"]
  /\ productsError' = err
  /\ loading' = FALSE

\* getAccessToken up to its fetch: the token request goes out with the
\* resolved credentials (they were validated before).
RequestToken(clientId, clientSecret) ==
  tokenLog' = [requests |-> tokenLog.requests + 1,
               sent |-> ResolveCredentials(clientId, clientSecret)]

\* Everything of the payment and dispensing pages but the store id.
otherAppVars ==
  <<route, cart, currentOrder, selectedPaymentMethod, isLoading, isDispensing, dispensedCount,
    payVars, hookVars, colVars, orders, collects, histVars>>

\* The effect of ProductsPage: store id check, storeCredentials, setStoreId,
\* then fetchProducts up to the token request of its step 1.
FetchProducts ==
  /\ fetchRun.pc = "effect"
  /\ LET sid == IF urlParams.storeId # "" THEN urlParams.storeId
                ELSE IF storeId # NoStore THEN storeId ELSE ""
         creds == ResolveCredentials(urlParams.id, urlParams.secret)
     IN IF sid = ""
          THEN /\ EndFetch(fetchRun, "store_required")
               /\ UNCHANGED <<storeId, appStorage, storedCreds, tokenStorage, tokenLog>>
          ELSE /\ storedCreds' = IF urlParams.id # "" /\ urlParams.secret # ""
                                   THEN [present |-> TRUE, id |-> urlParams.id,
                                         secret |-> urlParams.secret]
                                   ELSE storedCreds
               /\ storeId' = sid
               /\ appStorage' = toJSON(partialize([StoreState EXCEPT !.storeId = sid]))
               /\ IF Complete(creds)
                    THEN /\ RequestToken(urlParams.id, urlParams.secret)
                         /\ fetchRun' = [fetchRun EXCEPT !.pc = "pageToken"]
                         /\ productsError' = NoError
                         /\ loading' = TRUE
                         /\ UNCHANGED tokenStorage
                    ELSE /\ EndFetch(fetchRun, "credentials_missing")
                         /\ tokenStorage' = 0
                         /\ UNCHANGED tokenLog
  /\ UNCHANGED <<otherAppVars, ageVerification, reloadLog, urlParams, envCreds, products, springs>>

\* The token request of step 1 is answered.  A token: getSpringsByStoreId
\* starts, and getHeaders requests its own token.  A failure or an empty
\* token: the stored token entry is removed and the error is shown.
PageTokenDone ==
  /\ fetchRun.pc = "pageToken"
  /\ \/ /\ EndFetch(fetchRun, "token_failed")
        /\ tokenStorage' = 0
        /\ UNCHANGED tokenLog
     \/ /\ tokenStorage' = TokenStorageAfter(tokenLog.requests)
        /\ RequestToken(urlParams.id, urlParams.secret)
        /\ fetchRun' = [fetchRun EXCEPT !.pc = "headersToken"]
        /\ UNCHANGED <<productsError, loading>>
  /\ UNCHANGED <<appVars, persistVars, urlParams, envCreds, storedCreds, products, springs>>

\* The answers to a token request: an error status, or a body whose
\* access_token is missing, blank, or a token with or without whitespace
\* around it.
TokenAnswers ==
  {[received |-> TRUE, ok |-> FALSE, access_token |-> ""]}
    \cup [received : {TRUE}, ok : {TRUE}, access_token : {"", " ", "jwt", " jwt "}]

\* getAccessToken throws: the response is not ok, or access_token is missing.
TokenThrows(answer) == ~answer.ok \/ answer.access_token = ""

\* String.prototype.trim on the tokens above.
Trim(text) ==
  CASE text = " " -> ""
    [] text = " jwt " -> "jwt"
    [] OTHER -> text

\* Faulty variant of Authorization: the token is not tested for emptiness.
AuthorizationUnchecked(accessToken) == "Bearer " \o Trim(accessToken)

\* getHeaders: the Authorization header for the token, or "" where it
\* throws 'Access token is empty or invalid'.
Authorization(accessToken) ==
  IF accessToken = "" \/ Trim(accessToken) = "" THEN ""
  ELSE "Bearer " \o Trim(accessToken)

\* The token request of getHeaders is answered.  A token: it goes into the
\* Authorization header of the springs request.  A failure: getHeaders throws.
HeadersTokenDone ==
  /\ fetchRun.pc = "headersToken"
  /\ \E answer \in TokenAnswers :
       LET run == [fetchRun EXCEPT !.tokenAnswer = answer]
       IN IF TokenThrows(answer)
            THEN /\ EndFetch(run, "token_failed")
                 /\ UNCHANGED tokenStorage
          ELSE IF Authorization(answer.access_token) = ""
            THEN /\ EndFetch(run, "token_failed")
                 /\ tokenStorage' = TokenStorageAfter(tokenLog.requests)
          ELSE /\ tokenStorage' = TokenStorageAfter(tokenLog.requests)
               /\ fetchRun' = [run EXCEPT !.pc = "springs", !.bearer = tokenLog.requests,
                                          !.authorization = Authorization(answer.access_token)]
               /\ UNCHANGED <<productsError, loading>>
  /\ UNCHANGED <<appVars, persistVars, urlParams, envCreds, storedCreds, tokenLog, products, springs>>

\* GET /stores/{id}/springs is answered: 401, another failure, or the
\* springs, which are filtered and mapped to the products shown.
SpringsDone ==
  /\ fetchRun.pc = "springs"
  /\ \/ /\ EndFetch(fetchRun, "unauthorized")
        /\ UNCHANGED <<products, springs>>
     \/ /\ EndFetch(fetchRun, "request_failed")
        /\ UNCHANGED <<products, springs>>
     \/ \E data \in SpringLists :
          LET mappedProducts == mapSpringsToProducts(filterAvailableSprings(data))
          IN /\ springs' = data
             /\ products' = IF Len(data) = 0 THEN <<>> ELSE mappedProducts
             /\ EndFetch(fetchRun,
                         IF Len(data) = 0 THEN "no_products"
                         ELSE IF Len(mappedProducts) = 0 THEN "none_available"
                         ELSE NoError)
  /\ UNCHANGED <<appVars, persistVars, authVars>>

NextProducts ==
  \/ FetchProducts
  \/ PageTokenDone
  \/ HeadersTokenDone
  \/ SpringsDone

\* The products page has been rendered for the first time, with or without
\* store_id, client_id and client_secret in the URL; its effect is pending.
InitProducts ==
  /\ route = "/products"
  /\ cart = <<>>
  /\ storeId \in {NoStore, "s1"}
  /\ currentOrder = NoOrder
  /\ selectedPaymentMethod = NoMethod
  /\ isLoading = FALSE
  /\ isDispensing = FALSE
  /\ dispensedCount = 0
  /\ payError = FALSE
  /\ payRun = [p \in PayRuns |-> IdlePay]
  /\ status = "checking"
  /\ previousStatusRef = "checking"
  /\ isCheckingRef = FALSE
  /\ checksInFlight = 0
  /\ pollTimer = FALSE
  /\ visListener = FALSE
  /\ visible = TRUE
  /\ checkOrigin = "none"
  /\ hookOpts = PaymentPageOpts
  /\ hookLog = EmptyLog
  /\ phase = "ready"
  /\ error = NoError
  /\ dispensedItems = 0
  /\ failedItems = 0
  /\ colRun = [r \in ColRuns |-> IdleCol]
  /\ orders = 0
  /\ collects = 0
  /\ failed = {}
  /\ reissued = {}
  /\ urlParams \in [storeId : {"", "s2"}, id : {"", "url"}, secret : {"", "url"}]
  /\ envCreds \in [id : {"", "env"}, secret : {"", "env"}]
  /\ storedCreds \in {NoStored, [present |-> TRUE, id |-> "old", secret |-> "old"]}
  /\ tokenStorage = 0
  /\ tokenLog = [requests |-> 0, sent |-> NoCreds]
  /\ fetchRun = [IdleFetch EXCEPT !.pc = "effect"]
  /\ products = <<>>
  /\ springs = <<>>
  /\ productsError = NoError
  /\ loading = TRUE
  /\ Hydrated

SpecProducts == InitProducts /\ [][NextProducts]_vars

\* ================================================================ properties
\* ------------------------------------------------------------ helper notions
\* The run has ended: by its results step or by an early return or the catch.
Ended(run) == run.pc = "idle" /\ run.outcome \in {"finished", "halted"}

\* The order items the loop rejected before dispensing (no id, or a product
\* without selectionNumber, vmId or storeId).
RejectedItems(run) ==
  {run.failedProducts[j].item :
     j \in {k \in 1..Len(run.failedProducts) : run.failedProducts[k].unit = -1}}

AcceptedItems(run) == (1..Len(run.items)) \ RejectedItems(run)

RECURSIVE SumQty(_, _)
SumQty(items, S) ==
  IF S = {} THEN 0
  ELSE LET k == CHOOSE x \in S : TRUE
       IN items[k].quantity + SumQty(items, S \ {k})

\* The run has left the loop over the order items with every item handled.
LoopDone(run) ==
  /\ run.n > 0
  /\ Len(run.items) = run.n
  /\ run.lastCall \in {"completeDispense", "createRefund", "processRefund"}

\* ------------------------------------------------------------------------ C1
\* C1: whenever a handleCollect run has recorded at least one failed item,
\* that run calls createRefund with every failed item covered by the refund
\* request, and calls processRefund for the refund that was created.
\* (Stated over the runs that reached the results step; no call has thrown
\* out of the handler there.)
C1_FailedItemsAreRefunded ==
  \A r \in ColRuns :
    LET run == colRun[r]
    IN (Ended(run) /\ run.outcome = "finished" /\ Len(run.failedProducts) > 0) =>
         /\ Len(run.refundRequest) > 0
         /\ \A j \in 1..Len(run.failedProducts) :
              \E k \in 1..Len(run.refundRequest) :
                run.refundRequest[k].item = run.failedProducts[j].item
         /\ run.refundCreated => run.lastCall = "processRefund"

\* ------------------------------------------------------------------------ C2
\* C2 as stated: in a run that passed the payment check and got the order
\* items, dispenseProduct is called exactly once per unit of each order item,
\* so the calls of the ended run equal the sum of the item quantities.
C2_OneDispensePerUnitOfEveryItem ==
  \A r \in ColRuns :
    LET run == colRun[r]
    IN (Ended(run) /\ run.n > 0) =>
         /\ Len(run.items) = run.n
         /\ run.dispenseCalls = SumQty(run.items, 1..Len(run.items))

\* C2 amended: in a run that reaches completeDispense, dispenseProduct is
\* called exactly once per unit of each order item that has an id and whose
\* product carries the spring metadata: while unit u of item i is dispensed
\* the calls so far are the units of the accepted items before i plus u + 1,
\* and after the loop they equal the sum of the accepted items' quantities.
C2_OneDispensePerUnitOfAcceptedItems ==
  \A r \in ColRuns :
    LET run == colRun[r]
    IN /\ run.pc = "dispenseProduct" =>
            run.dispenseCalls =
              SumQty(run.items, AcceptedItems(run) \cap (1..(run.i - 1))) + run.u + 1
       /\ LoopDone(run) =>
            run.dispenseCalls = SumQty(run.items, AcceptedItems(run))

\* A run that left the loop after rejecting one item and dispensing at least
\* two units of another.
C2_Witness ==
  \E r \in ColRuns :
    /\ LoopDone(colRun[r])
    /\ RejectedItems(colRun[r]) # {}
    /\ colRun[r].dispenseCalls >= 2

\* ------------------------------------------------------------------------ C3
\* The backend calls a handlePay run waits for.
PayCalls == {"validatePrePayment", "createOrder", "createRazorpayOrder", "verifyPayment"}

\* The run found the VM offline: the monitor reported 'offline' or 'error'
\* when Pay was pressed, or validatePrePayment returned vm_connected = false.
FoundVMOffline(run) == run.vmStatus \in {"offline", "error"} \/ run.vmConnected = "no"

\* C3: a handlePay run that finds the VM offline creates no order, opens no
\* payment gateway, sets no currentOrder and does not navigate.
C3_OfflineBlocksCheckout ==
  \A p \in PayRuns :
    LET run == payRun[p]
    IN FoundVMOffline(run) =>
         /\ run.pc \notin {"createOrder", "createRazorpayOrder", "modal", "verifyPayment"}
         /\ run.order = 0
         /\ ~run.opened
         /\ ~run.stored
         /\ ~run.navigated

\* Pay was pressed while the monitor reported a failed status check; the run
\* has returned with the error set.
C3_Witness ==
  \E p \in PayRuns :
    /\ payRun[p].vmStatus = "error"
    /\ payRun[p].pc = "idle"
    /\ payError
    /\ route = "/payment"

\* ------------------------------------------------------------------------ C4
\* C4: the payment page stores currentOrder and navigates to the dispensing
\* page only after verifyPayment has succeeded; otherwise currentOrder is
\* unchanged and the app stays on the payment page.
C4_OrderStoredOnlyAfterVerification ==
  /\ \A p \in PayRuns : (payRun[p].stored \/ payRun[p].navigated) => payRun[p].verified
  /\ currentOrder # NoOrder =>
       \E p \in PayRuns : payRun[p].verified /\ payRun[p].order = currentOrder.id
  /\ route = "/dispensing" => \E p \in PayRuns : payRun[p].verified

\* ------------------------------------------------------------------------ C5
\* The backend calls of handleCollect in the order of the numbered steps: each
\* pair is a call and the call that may directly follow it.
StrictOrder ==
  { <<"none", "getOrderCheck">>,
    <<"getOrderCheck", "initiateDispense">>,
    <<"initiateDispense", "getOrderItems">>,
    <<"getOrderItems", "dispenseProduct">>,
    <<"dispenseProduct", "updateDispenseStatus">>,
    <<"updateDispenseStatus", "dispenseProduct">>,
    <<"updateDispenseStatus", "completeDispense">>,
    <<"completeDispense", "createRefund">>,
    <<"createRefund", "processRefund">> }

\* updateDispenseStatus without a dispenseProduct before it: for an item that
\* was rejected, and once more from the catch of the per-unit loop.
StatusOnlyCalls ==
  { <<"getOrderItems", "updateDispenseStatus">>,
    <<"updateDispenseStatus", "updateDispenseStatus">> }

\* C5 as stated: a run calls getOrder, initiateDispense, getOrder, then per
\* unit dispenseProduct followed by updateDispenseStatus, then
\* completeDispense, createRefund and processRefund, strictly in this order,
\* and completeDispense is not called before every item was handled.
C5_StrictCallOrder ==
  \A r \in ColRuns :
    LET run == colRun[r]
    IN run.lastCall # "none" =>
         /\ <<run.prevCall, run.lastCall>> \in StrictOrder
         /\ run.lastCall \in {"completeDispense", "createRefund", "processRefund"} =>
              Len(run.items) = run.n

\* C5 amended: the order holds, except that updateDispenseStatus is also
\* called without a dispenseProduct before it: right after getOrder or after
\* another updateDispenseStatus (rejected item, catch of the per-unit loop).
\* A dispenseProduct is always followed by updateDispenseStatus, and
\* completeDispense is not called before every item was handled.
C5_CallOrderWithStatusOnlyCalls ==
  \A r \in ColRuns :
    LET run == colRun[r]
    IN run.lastCall # "none" =>
         /\ <<run.prevCall, run.lastCall>> \in StrictOrder \cup StatusOnlyCalls
         /\ run.lastCall \in {"completeDispense", "createRefund", "processRefund"} =>
              Len(run.items) = run.n

\* A run that went through all the steps up to a processed refund.
C5_Witness ==
  \E r \in ColRuns :
    /\ Ended(colRun[r])
    /\ colRun[r].lastCall = "processRefund"
    /\ colRun[r].refundProcessed
    /\ colRun[r].n = MaxItems

\* ------------------------------------------------------------------------ C7
\* C7: whenever handleCollect halts with an error, the error message is shown
\* on the dispensing page.
C7_HaltErrorIsShown == error # NoError => Screen = "error"

RequestsInFlight ==
  checksInFlight + Cardinality({p \in PayRuns : payRun[p].pc \in PayCalls})
                 + Cardinality({r \in ColRuns : colRun[r].pc # "idle"})

C10_PayOnlyWhenOnline ==
  \A p \in PayRuns : payRun[p].pc # "idle" => payRun[p].vmStatus = "online"

\* ----------------------------------------------------------------------- C11
\* C11: when the user closes the Razorpay checkout without paying (a run goes
\* from the open checkout straight back to idle), the cart and currentOrder
\* are unchanged, isLoading is reset to false and the app does not navigate.
C11_CancelLeavesCartAndOrder ==
  [][\A p \in PayRuns :
       (payRun[p].pc = "modal" /\ payRun'[p].pc = "idle") =>
         /\ cart' = cart
         /\ currentOrder' = currentOrder
         /\ isLoading' = FALSE
         /\ route' = route]_vars

\* The checkout was opened and closed without a payment: no verification ran
\* (its failure would have set the error), and the page is still shown.
C11_Witness ==
  /\ route = "/payment"
  /\ ~isLoading
  /\ ~payError
  /\ \E p \in PayRuns :
       payRun[p].pc = "idle" /\ payRun[p].opened /\ ~payRun[p].verified

C13_TokenRetriedBeforeAuthError ==
  productsError = "unauthorized" => tokenLog.requests > fetchRun.bearer


\* ----------------------------------------------------------------------- C14
\* C14: with toasts enabled, a completed status check shows a toast exactly
\* when the status it yields differs from the status the previous completed
\* check yielded; the same status shows none and a first 'online' shows none.
C14_ToastExactlyOnChange ==
  (hookOpts.showToasts /\ hookLog.lastYield # "none") =>
    (hookLog.lastToast <=>
       /\ hookLog.lastYield # hookLog.prevYield
       /\ ~(hookLog.prevYield = "none" /\ hookLog.lastYield = "online"))


\* ----------------------------------------------------------------------- C15
\* C15: after the component has unmounted or enabled has become false, a
\* check the hook started itself reports no status change: no state update,
\* no toast and no onStatusChange call.
C15_NoReportAfterCleanup == ~hookLog.lateReport


\* ----------------------------------------------------------------------- C17
\* C17: only storeId and ageVerification are persisted: right after a reload
\* currentOrder, selectedPaymentMethod, isLoading, isDispensing and
\* dispensedCount are at their initial values, and storeId and
\* ageVerification are what they were before the reload.
C17_ReloadKeepsOnlyPersisted ==
  reloadLog.fresh =>
    /\ currentOrder = InitialState.currentOrder
    /\ selectedPaymentMethod = InitialState.selectedPaymentMethod
    /\ isLoading = InitialState.isLoading
    /\ isDispensing = InitialState.isDispensing
    /\ dispensedCount = InitialState.dispensedCount
    /\ storeId = reloadLog.before.storeId
    /\ ageVerification = reloadLog.before.ageVerification


\* ----------------------------------------------------------------------- C18
\* C18: every product shown comes from a spring with inventory > 0 whose
\* status is neither 'broken' nor 'maintenance'; a spring that fails one of
\* these is not among the products shown.
C18_OnlyAvailableSpringsShown ==
  /\ \A k \in 1..Len(products) :
       /\ products[k].id \in 1..Len(springs)
       /\ springs[products[k].id].inventory > 0
       /\ springs[products[k].id].spring_status \notin {"broken", "maintenance"}
  /\ \A i \in 1..Len(springs) :
       (springs[i].inventory = 0 \/ springs[i].spring_status \in {"broken", "maintenance"}) =>
         \A k \in 1..Len(products) : products[k].id # i

\* Products are shown while the backend also returned an active spring with
\* a linked product and no inventory.
C18_Witness ==
  /\ Len(products) > 0
  /\ \E i, j \in 1..Len(springs) :
       /\ springs[i].linked = "ok" /\ springs[i].inventory = 0
       /\ springs[i].spring_status = "active"
       /\ springs[j].linked = "ok" /\ springs[j].inventory = 1
       /\ springs[j].spring_status = "active"


\* ----------------------------------------------------------------------- C19
\* C19: the client_id and the client_secret of a token request each come
\* from the parameters of getAccessToken if given there, else from the
\* environment if set there, and from the stored credentials only when
\* neither of the two provides them.
C19_CredentialPriority ==
  tokenLog.requests > 0 =>
    /\ urlParams.id # "" => tokenLog.sent.id = urlParams.id
    /\ (urlParams.id = "" /\ envCreds.id # "") => tokenLog.sent.id = envCreds.id
    /\ (urlParams.id = "" /\ envCreds.id = "") =>
         storedCreds.present /\ tokenLog.sent.id = storedCreds.id
    /\ urlParams.secret # "" => tokenLog.sent.secret = urlParams.secret
    /\ (urlParams.secret = "" /\ envCreds.secret # "") => tokenLog.sent.secret = envCreds.secret
    /\ (urlParams.secret = "" /\ envCreds.secret = "") =>
         storedCreds.present /\ tokenLog.sent.secret = storedCreds.secret

\* A token request whose client_id is the URL's although the environment
\* sets one too, and whose client_secret had to come from localStorage.
C19_Witness ==
  /\ tokenLog.requests > 0
  /\ urlParams.id # "" /\ envCreds.id # ""
  /\ urlParams.secret = "" /\ envCreds.secret = ""
  /\ tokenLog.sent.id = urlParams.id
  /\ tokenLog.sent.secret = storedCreds.secret


\* ----------------------------------------------------------------------- C20
\* C20: while initiateDispense or dispenseProduct is in flight in a run of
\* handleCollect, getOrder has answered in that run with payment_verified
\* true and order_status 'paid'.
C20_DispenseOnlyForPaidOrder ==
  \A r \in ColRuns :
    colRun[r].pc \in {"initiateDispense", "dispenseProduct"} =>
      colRun[r].check.payment_verified /\ colRun[r].check.order_status = "paid"

\* A unit is being dispensed in a run whose payment check passed.
C20_Witness ==
  \E r \in ColRuns :
    /\ colRun[r].pc = "dispenseProduct"
    /\ colRun[r].check = [payment_verified |-> TRUE, order_status |-> "paid"]


\* ----------------------------------------------------------------------- C21
\* The entries of a list of failures that stand for a unit whose dispense
\* was attempted (an item rejected before dispensing has unit -1).
FailedUnits(list) == {j \in 1..Len(list) : list[j].unit >= 0}

\* C21: after the dispense loop every attempted unit was counted once, as a
\* success or as a failure: successCount plus the units recorded as failed
\* is the number of dispenseProduct calls, and no unit whose dispenseProduct
\* returned success = true is in the list the refund request is built from.
C21_EachUnitCountedOnce ==
  \A r \in ColRuns :
    LET run == colRun[r]
    IN LoopDone(run) =>
         /\ run.successCount + Cardinality(FailedUnits(run.failedProducts)) = run.dispenseCalls
         /\ \A j \in FailedUnits(run.failedItemsForRefund) :
              <<run.failedItemsForRefund[j].item, run.failedItemsForRefund[j].unit>>
                \notin run.succeeded


\* ----------------------------------------------------------------------- C22
\* C22: one hook instance has at most one getConnectionStatus request in
\* flight, whatever starts the checks, and isCheckingRef is held exactly
\* while that request is in flight: it is released when the check ends, by
\* an answer or by an error.
C22_NoConcurrentChecks ==
  /\ checksInFlight <= 1
  /\ isCheckingRef <=> checksInFlight = 1

\* A check ended with an error, the guard was released, and a manual check
\* is now in flight.
C22_Witness ==
  /\ hookLog.lastYield = "error"
  /\ checkOrigin = "user"
  /\ isCheckingRef
  /\ checksInFlight = 1


\* ----------------------------------------------------------------------- C23
\* C23: the step in which a run of handleCollect passes its result step
\* leaves phase 'complete' exactly when the run recorded no failed item,
\* 'partial' exactly when it dispensed at least one unit and recorded a
\* failed item, and otherwise 'ready' with an error set.
C23_ResultPhase ==
  [][\A r \in ColRuns :
       (colRun[r].outcome = "running" /\ colRun'[r].outcome = "finished") =>
         LET anyFailed == Len(colRun'[r].failedProducts) > 0
             anyDispensed == colRun'[r].successCount > 0
         IN /\ phase' = "complete" <=> ~anyFailed
            /\ phase' = "partial" <=> (anyDispensed /\ anyFailed)
            /\ (anyFailed /\ ~anyDispensed) => (phase' = "ready" /\ error' # NoError)]_vars

\* A run has ended at its result step with every unit failed: the page is
\* back at 'ready' and shows the error.
C23_Witness ==
  \E r \in ColRuns :
    /\ colRun[r].outcome = "finished"
    /\ colRun[r].dispenseCalls > 0
    /\ colRun[r].successCount = 0
    /\ phase = "ready"
    /\ error = "all_failed"


\* ----------------------------------------------------------------------- C24
\* The token request of getHeaders was answered with a usable token.
UsableToken(answer) == answer.received /\ answer.ok /\ Trim(answer.access_token) # ""

====
